---- MODULE Spec2Model ----
(***************************************************************************)
(* Bitmask flag sets of 353words/bitmask: KeySet and Player (game.go) and  *)
(* DocumentPermissions (bits/permissions.go), with the call sequences of   *)
(* their tests (TestKeys, TestPermissions/checkPerms).                      *)
(***************************************************************************)
EXTENDS Integers, Sequences, FiniteSets

\* ------------------------------------------------------------------ bounds

\* Number of most recent mutating calls kept in hist, per specification.
RawDepth == 2
GameDepth == 3
PermDepth == 2
UnionDepth == 2

\* Most frames of String the call stack may hold.
MaxStack == 3

\* ------------------------------------------------- byte arithmetic of Go

\* Width in bits of byte / uint8, the underlying type of KeySet and
\* DocumentPermissions.
W == 8

Byte == 0 .. (2^W - 1)

RECURSIVE AndBits(_, _, _)
AndBits(a, b, n) ==
    IF n = 0 THEN 0
    ELSE (IF a % 2 = 1 /\ b % 2 = 1 THEN 1 ELSE 0)
         + 2 * AndBits(a \div 2, b \div 2, n - 1)

RECURSIVE OrBits(_, _, _)
OrBits(a, b, n) ==
    IF n = 0 THEN 0
    ELSE (IF a % 2 = 1 \/ b % 2 = 1 THEN 1 ELSE 0)
         + 2 * OrBits(a \div 2, b \div 2, n - 1)

RECURSIVE NotBits(_, _)
NotBits(a, n) ==
    IF n = 0 THEN 0
    ELSE (IF a % 2 = 1 THEN 0 ELSE 1) + 2 * NotBits(a \div 2, n - 1)

\* a & b, a | b, ^a and a << n on a byte.
And(a, b) == AndBits(a, b, W)
Or(a, b) == OrBits(a, b, W)
Not(a) == NotBits(a, W)
Shl(a, n) == (a * 2^n) % 2^W

\* ------------------------------------------------------- game.go: KeySet

\* const ( Copper KeySet = 1 << iota; Jade; Crystal; maxKey )
Copper == Shl(1, 0)

\* A second constant written without iota advancing: it repeats the first.
JadeAliased == Shl(1, 0)

Jade == Shl(1, 1)
Crystal == Shl(1, 2)

\* A sentinel placed one line early in the const block.
maxKeyEarly == Shl(1, 2)

maxKey == Shl(1, 3)

\* The declared keys.
Flags == {Copper, Jade, Crystal}

\* fmt.Sprintf("%d", n) for an unsigned value.
Digit(d) == <<"0", "1", "2", "3", "4", "5", "6", "7", "8", "9">>[d + 1]

RECURSIVE FormatDecimal(_)
FormatDecimal(n) ==
    IF n < 10 THEN Digit(n)
    ELSE FormatDecimal(n \div 10) \o Digit(n % 10)

\* A join that leaves the separator out.
RECURSIVE JoinNoSep(_, _)
JoinNoSep(names, sep) ==
    IF Len(names) = 0 THEN ""
    ELSE names[1] \o JoinNoSep(Tail(names), sep)

\* strings.Join(names, sep)
RECURSIVE Join(_, _)
Join(names, sep) ==
    IF Len(names) = 0 THEN ""
    ELSE IF Len(names) = 1 THEN names[1]
    ELSE names[1] \o sep \o Join(Tail(names), sep)

\* KeySet.String; NamesFrom is its loop
\*   for key := Copper; key < maxKey; key <<= 1 { if k&key != 0 { append } }
RECURSIVE String(_), NamesFrom(_, _)

\* String without the range check of line 20: the value is decoded as if
\* masked to the declared bits.
StringNoRangeCheck(k) ==
    IF k = Copper THEN "copper"
    ELSE IF k = Jade THEN "jade"
    ELSE IF k = Crystal THEN "crystal"
    ELSE Join(NamesFrom(k, Copper), "|")

\* String whose switch ends in a default case reporting the value unknown.
StringSingleOnly(k) ==
    IF k = Copper THEN "copper"
    ELSE IF k = Jade THEN "jade"
    ELSE IF k = Crystal THEN "crystal"
    ELSE "<unknown key: " \o FormatDecimal(k) \o ">"

String(k) ==
    IF k >= maxKey THEN "<unknown key: " \o FormatDecimal(k) \o ">"
    ELSE IF k = Copper THEN "copper"
    ELSE IF k = Jade THEN "jade"
    ELSE IF k = Crystal THEN "crystal"
    ELSE Join(NamesFrom(k, Copper), "|")

NamesFrom(k, key) ==
    IF key < maxKey
    THEN (IF And(k, key) # 0 THEN <<String(key)>> ELSE <<>>)
         \o NamesFrom(k, Shl(key, 1))
    ELSE <<>>

\* Slips of AddKey: "&=", "+=" and "=" written for "|=".
AddKeyOpAnd(keys, key) == And(keys, key)
AddKeyOpPlus(keys, key) == (keys + key) % 2^W
AddKeyOpAssign(keys, key) == key

\* An AddKey that validates its argument and ignores an undeclared pattern.
AddKeyOpValidated(keys, key) == IF key >= maxKey THEN keys ELSE Or(keys, key)

\* A HasKey that asks for all the bits of its argument.
HasKeyOpAll(keys, key) == And(keys, key) = key

\* Slips of RemoveKey: the complement forgotten, and "-=" written for "&= ^".
RemoveKeyOpNoNot(keys, key) == And(keys, key)
RemoveKeyOpMinus(keys, key) == (keys - key + 2^W) % 2^W

\* The bodies of Player.AddKey, Player.HasKey and Player.RemoveKey.
AddKeyOp(keys, key) == Or(keys, key)
HasKeyOp(keys, key) == And(keys, key) # 0
RemoveKeyOp(keys, key) == And(keys, Not(key))

\* ---------------------------------- game/bench_test.go: Key and Player

\* const ( Copper Key = 1 << iota; Jade; Crystal; MaxKey )
gameCopper == Shl(1, 0)
gameJade == Shl(1, 1)
gameCrystal == Shl(1, 2)
MaxKey == Shl(1, 3)

\* Key.String and its loop.
RECURSIVE gameString(_), gameNamesFrom(_, _)

\* A copy of String that has lost the range check.
gameStringNoRangeCheck(k) ==
    IF k = gameCopper THEN "copper"
    ELSE IF k = gameJade THEN "jade"
    ELSE IF k = gameCrystal THEN "crystal"
    ELSE Join(gameNamesFrom(k, gameCopper), "|")

gameString(k) ==
    IF k >= MaxKey THEN "<unknown key: " \o FormatDecimal(k) \o ">"
    ELSE IF k = gameCopper THEN "copper"
    ELSE IF k = gameJade THEN "jade"
    ELSE IF k = gameCrystal THEN "crystal"
    ELSE Join(gameNamesFrom(k, gameCopper), "|")

gameNamesFrom(k, key) ==
    IF key < MaxKey
    THEN (IF And(k, key) # 0 THEN <<gameString(key)>> ELSE <<>>)
         \o gameNamesFrom(k, Shl(key, 1))
    ELSE <<>>

\* The bodies of its Player.AddKey, Player.HasKey and Player.RemoveKey.
gameAddKeyOp(keys, key) == Or(keys, key)
gameHasKeyOp(keys, key) == And(keys, key) # 0
gameRemoveKeyOp(keys, key) == And(keys, Not(key))

\* ------------------------------------- bits/permissions.go: permissions

\* const ( Locked DocumentPermissions = 1 << iota; GroupReadable; ... )
Locked == Shl(1, 0)
GroupReadable == Shl(1, 1)
GroupWritable == Shl(1, 2)
AllReadable == Shl(1, 3)
AllWritable == Shl(1, 4)

Perms == {Locked, GroupReadable, GroupWritable, AllReadable, AllWritable}

\* A slip of Clear: the complement forgotten.
ClearOpNoNot(p, prm) == And(p, prm)

\* The bodies of DocumentPermissions.Set, Clear and IsSet.
SetOp(p, prm) == Or(p, prm)
ClearOp(p, prm) == And(p, Not(prm))
IsSetOp(p, prm) == And(p, prm) # 0

\* permissions_test.go: isIn, and checkPerms' loop "for bit := 0; bit < 7".
CheckBits == 7

isIn(p, perms) == p \in perms

checkPermsOp(p, perms) ==
    \A bit \in 0 .. (CheckBits - 1) :
        LET q == Shl(1, bit)
        IN  IF isIn(q, perms) THEN IsSetOp(p, q) ELSE ~IsSetOp(p, q)

\* A union of flags as a value: the flags are distinct bits, so their
\* bitwise OR is their sum.
RECURSIVE UnionOf(_)
UnionOf(S) ==
    IF S = {} THEN 0
    ELSE LET f == CHOOSE x \in S : TRUE IN f + UnionOf(S \ {f})

KeyUnions == {UnionOf(S) : S \in SUBSET Flags}
PermUnions == {UnionOf(S) : S \in SUBSET Perms}

\* The declared permissions a value is made of, as the test lists them.
Members(v) == {q \in Perms : (v \div q) % 2 = 1}

\* -------------------------------------------------------------- the state

VARIABLES
    Name,   \* Player.Name
    Keys,   \* Player.Keys
    perm,   \* the DocumentPermissions value under test
    set,    \* the reference list checkPerms compares perm with
    call,   \* the most recent call and what it returned
    hist,   \* the most recent mutating calls, oldest first
    gKeys,  \* Player.Keys of game/bench_test.go
    run     \* one execution of KeySet.String, statement by statement

vars == <<Name, Keys, perm, set, call, hist, gKeys, run>>

\* No execution of String under way.
NoRun == [input |-> 0, stack |-> <<>>, done |-> FALSE, out |-> "", seen |-> <<>>]

NoCall == [op |-> "none", arg |-> 0, bool |-> FALSE, text |-> ""]

Called(op, arg, b, t) == [op |-> op, arg |-> arg, bool |-> b, text |-> t]

\* hist after one more mutating call, keeping the last depth of them.
Push(h, rec, depth) ==
    LET all == Append(h, rec)
    IN  IF Len(all) > depth THEN SubSeq(all, Len(all) - depth + 1, Len(all))
        ELSE all

\* ------------------------------------------------------- Player's methods

AddKey(key, depth) ==
    /\ Keys' = AddKeyOp(Keys, key)
    /\ call' = Called("AddKey", key, FALSE, "")
    /\ hist' = Push(hist, [op |-> "AddKey", arg |-> key, pre |-> Keys], depth)
    /\ UNCHANGED <<Name, perm, set, gKeys, run>>

RemoveKey(key, depth) ==
    /\ Keys' = RemoveKeyOp(Keys, key)
    /\ call' = Called("RemoveKey", key, FALSE, "")
    /\ hist' = Push(hist, [op |-> "RemoveKey", arg |-> key, pre |-> Keys], depth)
    /\ UNCHANGED <<Name, perm, set, gKeys, run>>

HasKey(key) ==
    /\ call' = Called("HasKey", key, HasKeyOp(Keys, key), "")
    /\ UNCHANGED <<Name, Keys, perm, set, hist, gKeys, run>>

\* p.Keys.String()
KeysString ==
    /\ call' = Called("String", Keys, FALSE, String(Keys))
    /\ UNCHANGED <<Name, Keys, perm, set, hist, gKeys, run>>

\* ------------------------------------------ DocumentPermissions' methods

Set(prm, depth) ==
    /\ perm' = SetOp(perm, prm)
    /\ set' = set \cup Members(prm)
    /\ call' = Called("Set", prm, FALSE, "")
    /\ hist' = Push(hist, [op |-> "Set", arg |-> prm, pre |-> perm], depth)
    /\ UNCHANGED <<Name, Keys, gKeys, run>>

Clear(prm, depth) ==
    /\ perm' = ClearOp(perm, prm)
    /\ set' = set \ Members(prm)
    /\ call' = Called("Clear", prm, FALSE, "")
    /\ hist' = Push(hist, [op |-> "Clear", arg |-> prm, pre |-> perm], depth)
    /\ UNCHANGED <<Name, Keys, gKeys, run>>

IsSet(prm) ==
    /\ call' = Called("IsSet", prm, IsSetOp(perm, prm), "")
    /\ UNCHANGED <<Name, Keys, perm, set, hist, gKeys, run>>

\* checkPerms(t, perm, set): bool is TRUE when no t.Fatalf is reached.
checkPerms ==
    /\ call' = Called("checkPerms", perm, checkPermsOp(perm, set), "")
    /\ UNCHANGED <<Name, Keys, perm, set, hist, gKeys, run>>

\* ------------------------------- the same call on all three implementations

\* What the three implementations did with one call: rets lists what each
\* returned, or the bit pattern it was left with.
Answered(op, rets) == [op |-> op, rets |-> rets]

SameAdd(key) ==
    /\ Keys' = AddKeyOp(Keys, key)
    /\ gKeys' = gameAddKeyOp(gKeys, key)
    /\ perm' = SetOp(perm, key)
    /\ call' = Answered("AddKey", <<Keys', gKeys', perm'>>)
    /\ UNCHANGED <<Name, set, hist, run>>

SameRemove(key) ==
    /\ Keys' = RemoveKeyOp(Keys, key)
    /\ gKeys' = gameRemoveKeyOp(gKeys, key)
    /\ perm' = ClearOp(perm, key)
    /\ call' = Answered("RemoveKey", <<Keys', gKeys', perm'>>)
    /\ UNCHANGED <<Name, set, hist, run>>

SameHas(key) ==
    /\ call' = Answered("HasKey", <<HasKeyOp(Keys, key),
                                    gameHasKeyOp(gKeys, key),
                                    IsSetOp(perm, key)>>)
    /\ UNCHANGED <<Name, Keys, perm, set, hist, gKeys, run>>

\* String of the two Players' Keys; DocumentPermissions has no String.
SameString ==
    /\ call' = Answered("String", <<String(Keys), gameString(gKeys)>>)
    /\ UNCHANGED <<Name, Keys, perm, set, hist, gKeys, run>>

\* --------------------------------- KeySet.String, statement by statement

\* "key++" written for "key <<= 1" in the loop header.
NextKeyIncrement(key) == (key + 1) % 2^W

\* The loop's post statement, key <<= 1.
NextKey(key) == Shl(key, 1)

\* A call k.String() that has just been entered.
Frame(k) == [k |-> k, pc |-> "check", key |-> 0, names |-> <<>>, seen |-> <<>>]

Top == run.stack[Len(run.stack)]

WithTop(f) == [run EXCEPT !.stack[Len(run.stack)] = f]

\* return text: the outermost call ends the run; a nested call hands text to
\* line 37 of its caller, which appends it and goes on to key <<= 1.
Return(text) ==
    IF Len(run.stack) = 1
    THEN [run EXCEPT !.stack = <<>>, !.done = TRUE, !.out = text,
                     !.seen = Top.seen]
    ELSE LET n == Len(run.stack) - 1
             caller == run.stack[n]
         IN  [run EXCEPT !.stack =
                 Append(SubSeq(run.stack, 1, n - 1),
                        [caller EXCEPT !.names = Append(caller.names, text),
                                       !.key = NextKey(caller.key),
                                       !.pc = "loop"])]

\* line 20: if k >= maxKey { return fmt.Sprintf(...) }
StringCheck ==
    /\ Len(run.stack) >= 1 /\ Top.pc = "check"
    /\ run' = IF Top.k >= maxKey
              THEN Return("<unknown key: " \o FormatDecimal(Top.k) \o ">")
              ELSE WithTop([Top EXCEPT !.pc = "switch"])
    /\ UNCHANGED <<Name, Keys, perm, set, call, hist, gKeys>>

\* lines 24-35: the switch, then var names and key := Copper
StringSwitch ==
    /\ Len(run.stack) >= 1 /\ Top.pc = "switch"
    /\ run' = IF Top.k = Copper THEN Return("copper")
              ELSE IF Top.k = Jade THEN Return("jade")
              ELSE IF Top.k = Crystal THEN Return("crystal")
              ELSE WithTop([Top EXCEPT !.pc = "loop", !.key = Copper])
    /\ UNCHANGED <<Name, Keys, perm, set, call, hist, gKeys>>

\* line 35: key < maxKey
StringLoopTest ==
    /\ Len(run.stack) >= 1 /\ Top.pc = "loop"
    /\ run' = WithTop([Top EXCEPT !.pc = IF Top.key < maxKey THEN "body"
                                         ELSE "join"])
    /\ UNCHANGED <<Name, Keys, perm, set, call, hist, gKeys>>

\* line 36, bit not set: on to key <<= 1
StringSkip ==
    /\ Len(run.stack) >= 1 /\ Top.pc = "body"
    /\ And(Top.k, Top.key) = 0
    /\ run' = WithTop([Top EXCEPT !.pc = "loop", !.key = NextKey(Top.key),
                                  !.seen = Append(Top.seen, Top.key)])
    /\ UNCHANGED <<Name, Keys, perm, set, call, hist, gKeys>>

\* lines 36-37, bit set: the nested call key.String()
StringNested ==
    /\ Len(run.stack) >= 1 /\ Top.pc = "body"
    /\ And(Top.k, Top.key) # 0
    /\ Len(run.stack) < MaxStack
    /\ run' = [run EXCEPT !.stack =
                  Append(SubSeq(run.stack, 1, Len(run.stack) - 1),
                         [Top EXCEPT !.pc = "append",
                                     !.seen = Append(Top.seen, Top.key)])
                  \o <<Frame(Top.key)>>]
    /\ UNCHANGED <<Name, Keys, perm, set, call, hist, gKeys>>

\* line 40: return strings.Join(names, "|")
StringJoin ==
    /\ Len(run.stack) >= 1 /\ Top.pc = "join"
    /\ run' = Return(Join(Top.names, "|"))
    /\ UNCHANGED <<Name, Keys, perm, set, call, hist, gKeys>>

\* ------------------------------------------------------ the specifications

\* A Player holding any byte as Keys (a raw or foreign value included),
\* called with the declared keys.
Init ==
    /\ Name = "Parzival"
    /\ Keys \in Byte
    /\ perm = 0
    /\ set = {}
    /\ call = NoCall
    /\ hist = <<>>
    /\ gKeys = 0
    /\ run = NoRun

Next ==
    \/ \E key \in Flags : AddKey(key, RawDepth)
    \/ \E key \in Flags : RemoveKey(key, RawDepth)
    \/ \E key \in Flags : HasKey(key)
    \/ KeysString

Spec == Init /\ [][Next]_vars

\* TestKeys' Player{"Parzival", 0}, or one built holding the limit value,
\* called with the declared keys.
InitGame ==
    /\ Name = "Parzival"
    /\ Keys \in {0, maxKey}
    /\ perm = 0
    /\ set = {}
    /\ call = NoCall
    /\ hist = <<>>
    /\ gKeys = 0
    /\ run = NoRun

NextGame ==
    \/ \E key \in Flags : AddKey(key, GameDepth)
    \/ \E key \in Flags : RemoveKey(key, GameDepth)
    \/ \E key \in Flags : HasKey(key)
    \/ KeysString

SpecGame == InitGame /\ [][NextGame]_vars

\* TestPermissions: perm starts as a union of declared permissions and set
\* lists them; Set and Clear take one declared permission, IsSet one of the
\* bits checkPerms asks for.
InitPerm ==
    /\ Name = "Parzival"
    /\ Keys = 0
    /\ perm \in PermUnions
    /\ set = Members(perm)
    /\ call = NoCall
    /\ hist = <<>>
    /\ gKeys = 0
    /\ run = NoRun

NextPerm ==
    \/ \E prm \in Perms : Set(prm, PermDepth)
    \/ \E prm \in Perms : Clear(prm, PermDepth)
    \/ \E bit \in 0 .. (CheckBits - 1) : IsSet(Shl(1, bit))
    \/ checkPerms

SpecPerm == InitPerm /\ [][NextPerm]_vars

\* Both types started inside their valid range and called with declared
\* flags or unions of them; no history is kept.
InitValid ==
    /\ Name = "Parzival"
    /\ Keys \in KeyUnions
    /\ perm \in PermUnions
    /\ set = Members(perm)
    /\ call = NoCall
    /\ hist = <<>>
    /\ gKeys = 0
    /\ run = NoRun

NextValid ==
    \/ \E key \in KeyUnions : AddKey(key, 0)
    \/ \E key \in KeyUnions : RemoveKey(key, 0)
    \/ \E key \in KeyUnions : HasKey(key)
    \/ KeysString
    \/ \E prm \in PermUnions : Set(prm, 0)
    \/ \E prm \in PermUnions : Clear(prm, 0)
    \/ \E bit \in 0 .. (CheckBits - 1) : IsSet(Shl(1, bit))
    \/ checkPerms

SpecValid == InitValid /\ [][NextValid]_vars

\* One call on a Player holding any byte as Keys, with any byte as argument
\* (composite and undeclared patterns included); the Keys it leaves can then
\* be rendered.
NextByte ==
    \/ \E key \in Byte : call = NoCall /\ AddKey(key, 1)
    \/ \E key \in Byte : call = NoCall /\ RemoveKey(key, 1)
    \/ \E key \in Byte : call = NoCall /\ HasKey(key)
    \/ call.op # "String" /\ call.op # "HasKey" /\ KeysString

SpecByte == Init /\ [][NextByte]_vars

\* AddKey and RemoveKey on a Player holding any byte as Keys, called with the
\* declared keys and their unions of one or more keys.
NextUnion ==
    \/ \E key \in KeyUnions \ {0} : AddKey(key, UnionDepth)
    \/ \E key \in KeyUnions \ {0} : RemoveKey(key, UnionDepth)

SpecUnion == Init /\ [][NextUnion]_vars

\* String called on any byte and run to its return; the Go runtime keeps
\* executing the goroutine, hence the fairness.
InitString ==
    /\ Name = "Parzival"
    /\ Keys \in Byte
    /\ perm = 0
    /\ set = {}
    /\ call = NoCall
    /\ hist = <<>>
    /\ gKeys = 0
    /\ run = [NoRun EXCEPT !.input = Keys, !.stack = <<Frame(Keys)>>]

NextString ==
    \/ StringCheck
    \/ StringSwitch
    \/ StringLoopTest
    \/ StringSkip
    \/ StringNested
    \/ StringJoin

SpecString == InitString /\ [][NextString]_vars /\ WF_vars(NextString)

\* The three implementations started on the same byte and given the same
\* calls with the same byte arguments, any number of them.
InitSame ==
    /\ Name = "Parzival"
    /\ Keys \in Byte
    /\ gKeys = Keys
    /\ perm = Keys
    /\ set = {}
    /\ call = NoCall
    /\ hist = <<>>
    /\ run = NoRun

NextSame ==
    \/ \E key \in Byte : SameAdd(key)
    \/ \E key \in Byte : SameRemove(key)
    \/ \E key \in Byte : SameHas(key)
    \/ SameString

SpecSame == InitSame /\ [][NextSame]_vars

\* ================================================================ claims

\* The declared keys in declaration order, their canonical names, and a
\* decimal numeral of a byte written digit by digit.
FlagSeq == <<Copper, Jade, Crystal>>
CanonicalName == <<"copper", "jade", "crystal">>

Numeral(n) ==
    (IF n >= 100 THEN Digit(n \div 100) ELSE "")
    \o (IF n >= 10 THEN Digit((n \div 10) % 10) ELSE "")
    \o Digit(n % 10)

\* Bit b of the byte v.
Bit(v, b) == (v \div 2^b) % 2

\* The last mutating call, and whether the last two were the same call.
LastMut == hist[Len(hist)]
PrevMut == hist[Len(hist) - 1]

\* hist is exactly the calls of seq (pairs of method and argument), the
\* first of them made on a Player whose Keys was start.
Ran(start, seq) ==
    /\ Len(hist) = Len(seq)
    /\ hist[1].pre = start
    /\ \A i \in 1 .. Len(seq) : hist[i].op = seq[i][1] /\ hist[i].arg = seq[i][2]

\* C1: whatever byte Keys held, once AddKey(f) was the last change to the
\* Player, HasKey(f) returns true, for each declared key f.
C1_HasAfterAdd ==
    (/\ call.op = "HasKey"
     /\ Len(hist) >= 1
     /\ LastMut.op = "AddKey"
     /\ LastMut.arg = call.arg)
    => call.bool

\* AddKey(Jade) on a raw value without Jade, then HasKey(Jade).
C1_Witness ==
    /\ call.op = "HasKey" /\ call.arg = Jade /\ call.bool
    /\ Len(hist) >= 1
    /\ LastMut = [op |-> "AddKey", arg |-> Jade, pre |-> 200]

\* C2: whatever byte Keys held, once RemoveKey(f) was the last change to the
\* Player, HasKey(f) returns false, also when AddKey(f) came right before it.
C2_NotHasAfterRemove ==
    (/\ call.op = "HasKey"
     /\ Len(hist) >= 1
     /\ LastMut.op = "RemoveKey"
     /\ LastMut.arg = call.arg)
    => ~call.bool

\* AddKey(Crystal) on a value that already held Crystal, RemoveKey(Crystal),
\* then HasKey(Crystal).
C2_Witness ==
    /\ call.op = "HasKey" /\ call.arg = Crystal /\ ~call.bool
    /\ Len(hist) = 2
    /\ hist[1] = [op |-> "AddKey", arg |-> Crystal, pre |-> 5]
    /\ hist[2] = [op |-> "RemoveKey", arg |-> Crystal, pre |-> 5]
    /\ Keys = 1

\* C3: String of a union of two or more declared keys is their canonical
\* names in declaration order joined by "|", whatever order they were added in.
C3_MultiKeyString ==
    call.op = "String" =>
        /\ \A i, j \in 1 .. 3 :
              (i < j /\ call.arg = FlagSeq[i] + FlagSeq[j])
              => call.text = CanonicalName[i] \o "|" \o CanonicalName[j]
        /\ call.arg = Copper + Jade + Crystal
              => call.text = "copper|jade|crystal"

\* Crystal added before Copper, then String: copper is still named first.
C3_Witness ==
    /\ call.op = "String" /\ call.text = "copper|crystal"
    /\ Len(hist) >= 2
    /\ PrevMut = [op |-> "AddKey", arg |-> Crystal, pre |-> 0]
    /\ LastMut = [op |-> "AddKey", arg |-> Copper, pre |-> 4]

\* C4: String of any value in 8..255 is "<unknown key: N>" with N the decimal
\* numeral of the whole value, valid low bits or not.
C4_UnknownString ==
    (call.op = "String" /\ call.arg \in 8 .. 255)
    => call.text = "<unknown key: " \o Numeral(call.arg) \o ">"

\* String of 11, which has the bits of copper and jade set.
C4_Witness ==
    /\ call.op = "String" /\ call.arg = 11 /\ Keys = 11
    /\ call.text = "<unknown key: 11>"

\* C5: String of a single declared key is that key's canonical name alone.
C5_SingleKeyString ==
    call.op = "String" =>
        \A i \in 1 .. 3 : call.arg = FlagSeq[i] => call.text = CanonicalName[i]

\* String of a Player holding Crystal alone, left after RemoveKey(Copper).
C5_Witness ==
    /\ call.op = "String" /\ call.arg = Crystal /\ call.text = "crystal"
    /\ Len(hist) >= 1
    /\ LastMut = [op |-> "RemoveKey", arg |-> Copper, pre |-> 5]

\* C6: String of the empty set is the empty string.
C6_EmptyString ==
    (call.op = "String" /\ call.arg = 0) => call.text = ""

\* A fresh Player got Jade, lost it again, and its Keys are rendered.
C6_Witness ==
    /\ call.op = "String" /\ call.arg = 0 /\ call.text = "" /\ Keys = 0
    /\ Ran(0, << <<"AddKey", Jade>>, <<"RemoveKey", Jade>> >>)

\* C7: the same AddKey or RemoveKey call made twice in a row leaves Keys as
\* the first call left it.
C7_Idempotent ==
    (/\ Len(hist) >= 2
     /\ LastMut.op = PrevMut.op
     /\ LastMut.arg = PrevMut.arg)
    => Keys = LastMut.pre

\* RemoveKey(Jade) twice on a raw value that held Jade.
C7_Witness ==
    /\ Len(hist) = 2
    /\ hist[1] = [op |-> "RemoveKey", arg |-> Jade, pre |-> 202]
    /\ hist[2] = [op |-> "RemoveKey", arg |-> Jade, pre |-> 200]
    /\ Keys = 200

\* C8: started in range and called with unions of declared flags, Keys stays
\* below 2^3 and perm below 2^5, and IsSet never reports bit 5 or bit 6.
C8_StaysInRange ==
    /\ Keys < 2^Cardinality(Flags)
    /\ perm < 2^Cardinality(Perms)
    /\ (call.op = "IsSet" /\ call.arg \in {2^5, 2^6}) => ~call.bool

\* Every declared permission was set at once, with every key held.
C8_Witness ==
    /\ call.op = "Set" /\ call.arg = 31 /\ perm = 31
    /\ Keys = 7

\* C9: after any Set and Clear calls with single declared permissions, IsSet
\* of each of the bits 0..6 agrees with membership in the reference set, so
\* checkPerms passes.
C9_MatchesReference ==
    /\ call.op = "IsSet" => (call.bool <=> call.arg \in set)
    /\ call.op = "checkPerms" => call.bool

\* TestPermissions: Locked|AllReadable, Set(GroupWritable), Clear(Locked).
C9_Witness ==
    /\ hist = << [op |-> "Set", arg |-> GroupWritable, pre |-> 9],
                 [op |-> "Clear", arg |-> Locked, pre |-> 13] >>
    /\ perm = 12
    /\ set = {AllReadable, GroupWritable}
    /\ call.op = "checkPerms" /\ call.bool

\* C10: the scenario of TestKeys, step by step on one Player starting at 0,
\* and String of the limit value 8.
C10_Scenario ==
    /\ (hist = <<>> /\ Keys = 0 /\ call.op = "String") => call.text = ""
    /\ Ran(0, << <<"AddKey", Copper>> >>)
          => /\ Keys = 1
             /\ call.op = "String" => call.text = "copper"
    /\ Ran(0, << <<"AddKey", Copper>>, <<"AddKey", Jade>> >>)
          => /\ Keys = 3
             /\ call.op = "String" => call.text = "copper|jade"
    /\ Ran(0, << <<"AddKey", Copper>>, <<"AddKey", Jade>>,
                 <<"RemoveKey", Copper>> >>)
          => /\ Keys = 2
             /\ call.op = "String" => call.text = "jade"
             /\ (call.op = "HasKey" /\ call.arg = Copper) => ~call.bool
             /\ (call.op = "HasKey" /\ call.arg = Jade) => call.bool
    /\ (call.op = "String" /\ call.arg = 8) => call.text = "<unknown key: 8>"

\* The whole scenario was run and HasKey(Jade) answered.
C10_Witness ==
    /\ Ran(0, << <<"AddKey", Copper>>, <<"AddKey", Jade>>,
                 <<"RemoveKey", Copper>> >>)
    /\ Keys = 2
    /\ call.op = "HasKey" /\ call.arg = Jade /\ call.bool

\* C11: for every pair of bytes, HasKey(flag) is true exactly when some bit
\* is set in both Keys and flag: any bit of a composite flag is enough.
C11_HasAnyBit ==
    call.op = "HasKey" =>
        /\ call.bool <=> (\E b \in 0 .. 7 : Bit(Keys, b) = 1 /\ Bit(call.arg, b) = 1)
        /\ (Keys = Copper /\ call.arg = Copper + Jade) => call.bool
        /\ (Keys = Copper + Crystal /\ call.arg = Crystal) => call.bool
        /\ (Keys = Copper + Crystal /\ call.arg = Jade) => ~call.bool

\* Keys = Copper asked for Copper|Jade: true though Jade is missing.
C11_Witness ==
    /\ call.op = "HasKey" /\ call.arg = 3 /\ call.bool
    /\ Keys = 1

\* C12: on every byte Keys each of AddKey, HasKey and RemoveKey can be called
\* with every byte argument; Keys stays a byte; an undeclared pattern is taken
\* without validation and shows only as String's unknown form.
C12_Total ==
    /\ Keys \in Byte
    /\ call = NoCall =>
          \A key \in Byte :
              /\ ENABLED AddKey(key, 1)
              /\ ENABLED RemoveKey(key, 1)
              /\ ENABLED HasKey(key)
    /\ call.op = "AddKey" =>
          \A b \in 0 .. 7 : Bit(call.arg, b) = 1 => Bit(Keys, b) = 1
    /\ call.op = "RemoveKey" =>
          \A b \in 0 .. 7 : Bit(call.arg, b) = 1 => Bit(Keys, b) = 0
    /\ call.op = "HasKey" => call.bool \in BOOLEAN
    /\ call.op = "String" =>
          (call.arg >= 8 <=>
              call.text = "<unknown key: " \o Numeral(call.arg) \o ">")

\* AddKey(200) on Keys = 3 was accepted and the result renders as unknown.
C12_Witness ==
    /\ call.op = "String" /\ call.arg = 203
    /\ call.text = "<unknown key: 203>"
    /\ hist = << [op |-> "AddKey", arg |-> 200, pre |-> 3] >>

\* C13: AddKey(flag) sets the bits of flag and RemoveKey(flag) clears them;
\* every other bit of Keys stays, Name stays, and HasKey and String change
\* neither Keys nor Name.
C13_Frame ==
    [][/\ Name' = Name
       /\ call'.op = "AddKey" =>
             \A b \in 0 .. 7 :
                 Bit(Keys', b) = IF Bit(call'.arg, b) = 1 THEN 1 ELSE Bit(Keys, b)
       /\ call'.op = "RemoveKey" =>
             \A b \in 0 .. 7 :
                 Bit(Keys', b) = IF Bit(call'.arg, b) = 1 THEN 0 ELSE Bit(Keys, b)
       /\ call'.op \in {"HasKey", "String"} => Keys' = Keys]_vars

\* RemoveKey(Crystal) on a raw value without Crystal left it as it was.
C13_Witness ==
    /\ call.op = "RemoveKey"
    /\ hist = << [op |-> "RemoveKey", arg |-> Crystal, pre |-> 200] >>
    /\ Keys = 200 /\ Name = "Parzival"

\* C14: the k-th declared flag is 1<<k, so no two flags share a bit; there
\* are no more flags than bits in the byte; maxKey is 1<<3 = 8, fits in the
\* byte, and String(maxKey) is the unknown form, not a flag name.
C14_DeclaredFlags ==
    /\ \A k \in 1 .. 3 : FlagSeq[k] = 2^(k - 1)
    /\ <<Locked, GroupReadable, GroupWritable, AllReadable, AllWritable>>
          = <<1, 2, 4, 8, 16>>
    /\ Cardinality(Flags) = 3 /\ Cardinality(Perms) = 5
    /\ \A f, g \in Flags \cup Perms :
          f # g => \A b \in 0 .. 7 : ~(Bit(f, b) = 1 /\ Bit(g, b) = 1)
    /\ Cardinality(Flags) <= W /\ Cardinality(Perms) <= W
    /\ maxKey = 2^Cardinality(Flags) /\ maxKey = 8 /\ maxKey \in Byte
    /\ (call.op = "String" /\ call.arg = maxKey)
          => call.text = "<unknown key: 8>"

\* A Player holding the limit value had its Keys rendered.
C14_Witness ==
    /\ call.op = "String" /\ call.arg = maxKey /\ Keys = 8
    /\ call.text = "<unknown key: 8>"
    /\ hist = <<>>

\* The rendering of every byte.
Rendering == [v \in Byte |-> String(v)]

\* C16: String is injective on 0..255: the value rendered is the only byte
\* with that rendering, so it can be recovered from the text.
C16_Injective ==
    call.op = "String" =>
        /\ call.text = Rendering[call.arg]
        /\ {v \in Byte : Rendering[v] = call.text} = {call.arg}

\* String of 9: not the text of 1, nor of any other byte.
C16_Witness ==
    /\ call.op = "String" /\ call.arg = 9 /\ Keys = 9
    /\ call.text = "<unknown key: 9>"
    /\ Rendering[1] = "copper"

\* Whether two bytes have no set bit in common.
SharesNoBit(f, g) == \A b \in 0 .. 7 : ~(Bit(f, b) = 1 /\ Bit(g, b) = 1)

\* Bit b after the calls of hist: what the last call naming b did to it, or
\* what it was before them when none names it.
RECURSIVE BitAfter(_, _)
BitAfter(b, i) ==
    IF i = 0 THEN Bit(hist[1].pre, b)
    ELSE IF Bit(hist[i].arg, b) = 1
         THEN (IF hist[i].op = "AddKey" THEN 1 ELSE 0)
         ELSE BitAfter(b, i - 1)

\* C17: two AddKey calls give the same Keys in either order, so do two
\* RemoveKey calls, and so do AddKey(f1) and RemoveKey(f2) when f1 and f2
\* share no bit; each bit of Keys is what the last call naming it made it.
C17_Commute ==
    Len(hist) >= 2 =>
        LET s == PrevMut.pre
            f1 == PrevMut.arg
            f2 == LastMut.arg
        IN  /\ (PrevMut.op = "AddKey" /\ LastMut.op = "AddKey")
                  => Keys = AddKeyOp(AddKeyOp(s, f2), f1)
            /\ (PrevMut.op = "RemoveKey" /\ LastMut.op = "RemoveKey")
                  => Keys = RemoveKeyOp(RemoveKeyOp(s, f2), f1)
            /\ (PrevMut.op = "AddKey" /\ LastMut.op = "RemoveKey"
                  /\ SharesNoBit(f1, f2))
                  => Keys = AddKeyOp(RemoveKeyOp(s, f2), f1)
            /\ \A b \in 0 .. 7 : Bit(Keys, b) = BitAfter(b, Len(hist))

\* AddKey(Copper|Jade) then RemoveKey(Crystal) on the raw value 12.
C17_Witness ==
    /\ Len(hist) = 2
    /\ hist[1] = [op |-> "AddKey", arg |-> 3, pre |-> 12]
    /\ hist[2] = [op |-> "RemoveKey", arg |-> 4, pre |-> 15]
    /\ Keys = 11

\* C18: AddKey(f) then RemoveKey(f) gives back the Keys it started from
\* exactly when that value had no bit of f; otherwise it gives that value
\* with the bits of f cleared.
C18_RemoveIsNoUndo ==
    (/\ Len(hist) >= 2
     /\ PrevMut.op = "AddKey" /\ LastMut.op = "RemoveKey"
     /\ PrevMut.arg = LastMut.arg)
    => LET s == PrevMut.pre
           f == LastMut.arg
       IN  /\ Keys = s <=> SharesNoBit(s, f)
           /\ \A b \in 0 .. 7 :
                 Bit(Keys, b) = IF Bit(f, b) = 1 THEN 0 ELSE Bit(s, b)

\* AddKey(Copper|Jade) then RemoveKey(Copper|Jade) on 201, which held Copper:
\* 200 is left, not 201.
C18_Witness ==
    /\ Len(hist) = 2
    /\ hist[1] = [op |-> "AddKey", arg |-> 3, pre |-> 201]
    /\ hist[2] = [op |-> "RemoveKey", arg |-> 3, pre |-> 203]
    /\ Keys = 200

\* What holds of String's loop and call stack at every statement.
C15_LoopAndDepth ==
    /\ Len(run.stack) <= 2
    /\ \A i \in 1 .. Len(run.stack) :
          LET f == run.stack[i]
          IN  /\ i >= 2 => (f.k \in Flags /\ f.pc \in {"check", "switch"})
              /\ f.pc \in {"loop", "body", "append", "join"}
                    => (f.key # 0 /\ f.key <= maxKey)
              /\ f.pc = "join"
                    => (f.key = maxKey /\ f.seen = <<Copper, Jade, Crystal>>)
    /\ run.done =>
          /\ run.out = String(run.input)
          /\ (run.input < maxKey /\ run.input \notin Flags)
                => run.seen = <<Copper, Jade, Crystal>>

\* C15: String returns for every byte; its loop visits Copper, Jade and
\* Crystal once each and stops at key = maxKey without key wrapping to 0; a
\* nested key.String() is only made on a declared key and returns from the
\* switch, so at most one call is nested.
C15_StringTerminates == (<>run.done) /\ []C15_LoopAndDepth

\* String(7) returned after three nested calls, one per loop round.
C15_Witness ==
    /\ run.done /\ run.input = 7
    /\ run.out = "copper|jade|crystal"
    /\ run.seen = <<1, 2, 4>>

\* C19: given the same calls with the same byte arguments, KeySet's Player,
\* Key's Player and DocumentPermissions hold the same bit pattern and return
\* the same booleans, and KeySet.String and Key.String return the same text.
C19_SameMachine ==
    /\ Keys = gKeys /\ gKeys = perm
    /\ call.op \in {"AddKey", "RemoveKey", "HasKey"} =>
          (call.rets[1] = call.rets[2] /\ call.rets[2] = call.rets[3])
    /\ call.op = "String" => call.rets[1] = call.rets[2]

\* All three were left holding the raw value 201 by the same RemoveKey.
C19_Witness ==
    /\ call = Answered("RemoveKey", <<201, 201, 201>>)
    /\ Keys = 201 /\ gKeys = 201 /\ perm = 201

====
